---------------------------- MODULE Spec2Model ----------------------------
(***************************************************************************)
(* Verification model of the Python programs of ikluft-tools:              *)
(*                                                                         *)
(*   shuffle/python/shuffle.py      read a file's lines, shuffle, write    *)
(*   scripts/jcsac_gen_cal.py       three calendar events for a chat date  *)
(*   scripts/cef_syntax_diagrams.py railroad diagrams of the CEF grammar   *)
(*                                                                         *)
(* Each program has its own specification (SpecShuffle, SpecCal, SpecCef)  *)
(* over the shared variables; the variables of the programs that are not   *)
(* running stay at their idle values.                                      *)
(***************************************************************************)
EXTENDS Integers, Sequences, FiniteSets, Bags, TLC

VARIABLES
    \* shuffle.py
    file,       \* the characters of the input file
    sh_pc,      \* position in the script: idle, read, shuffle, write, done
    pos,        \* index of the next unread character of the file
    words,      \* the list readlines() builds, shuffled in place
    idx,        \* random.shuffle's loop index i
    widx,       \* index of the next element writelines() writes
    stdout,     \* the characters written to standard output
    \* jcsac_gen_cal.py
    argv,       \* the command line after the program name
    cal_pc,     \* position in run(): idle, start, time, zone, compute, ...
    d_t,        \* the dictionary d_t of run()
    cal,        \* the Calendar object and its components
    cal_out,    \* what run() has printed
    outfiles,   \* the files run() has written
    raised,     \* the exception that ended run(), "" when none
    rc,         \* run()'s return value, -1 while it has not returned
    \* cef_syntax_diagrams.py, and a CEF line read against its diagrams
    svg,        \* the diagrams outsvg() has written, by name
    cef_pc,     \* idle, run, returned, match, parse, validate, build, done
    cef_step,   \* the number of outsvg() calls run() has made
    tokens,     \* the tokens of the line being read
    accepted,   \* whether the "line" diagram describes the tokens
    parsed,     \* the result of parse_line
    checked,    \* the result of validate
    ballot      \* the result of build_ballot

sh_vars == <<file, sh_pc, pos, words, idx, widx, stdout>>

cal_vars == <<argv, cal_pc, d_t, cal, cal_out, outfiles, raised, rc>>

cef_vars == <<svg, cef_pc, cef_step, tokens, accepted, parsed, checked, ballot>>

vars == <<sh_vars, cal_vars, cef_vars>>

(***************************************************************************)
(* General helpers                                                         *)
(***************************************************************************)
Range(s) == {s[i] : i \in DOMAIN s}

SeqToBag(s) == [x \in Range(s) |-> Cardinality({i \in DOMAIN s : s[i] = x})]

\* All sequences over S of length at most n.
SeqsUpTo(S, n) == UNION {[1..k -> S] : k \in 0..n}

\* The other programs are not running.
ShuffleIdle ==
    /\ file = <<>>
    /\ sh_pc = "idle"
    /\ pos = 0
    /\ words = <<>>
    /\ idx = 0
    /\ widx = 0
    /\ stdout = <<>>

CalIdle ==
    /\ argv = [n |-> 0, date |-> <<>>, time |-> <<>>, zone |-> ""]
    /\ cal_pc = "idle"
    /\ d_t = <<>>
    /\ cal = [built |-> FALSE, components |-> <<>>]
    /\ cal_out = <<>>
    /\ outfiles = {}
    /\ raised = ""
    /\ rc = -1

\* A Line, a parse result and a Ballot before anything has been read.
NoLine ==
    [has_tags |-> FALSE, tags |-> <<>>, empty |-> FALSE, groups |-> <<>>,
     quantifier |-> [present |-> FALSE, value |-> 0],
     weight |-> [present |-> FALSE, value |-> 0]]

NoParse == [ok |-> FALSE, err |-> "", line |-> NoLine]

NoBallot == [built |-> FALSE, tag_list |-> <<>>, ranked_groups |-> <<>>,
             count |-> 0, weight |-> 0]

CefIdle ==
    /\ svg = <<>>
    /\ cef_pc = "idle"
    /\ cef_step = 0
    /\ tokens = <<>>
    /\ accepted = "?"
    /\ parsed = NoParse
    /\ checked = ""
    /\ ballot = NoBallot

(***************************************************************************)
(* shuffle.py                                                              *)
(***************************************************************************)
\* Longest input file of the model, in characters.
MaxFileLen == 4

\* The characters a file is made of: two letters and the line terminators.
FileChars == {"a", "b", "\n", "\r"}

\* One readline() of a file opened with open(file, 'r'): text mode with
\* universal newlines, so "\n", "\r\n" and a lone "\r" all end a line and
\* are handed over as "\n"; the last line of a file that does not end in
\* a terminator is handed over without one.  Gives the line and the index
\* of the first character after it.
RECURSIVE ReadLineFrom(_, _, _)
ReadLineFrom(f, p, acc) ==
    IF p > Len(f) THEN [line |-> acc, next |-> p]
    ELSE IF f[p] = "\n" THEN [line |-> Append(acc, "\n"), next |-> p + 1]
    ELSE IF f[p] = "\r" THEN
        [line |-> Append(acc, "\n"),
         next |-> IF p + 1 <= Len(f) /\ f[p + 1] = "\n" THEN p + 2 ELSE p + 1]
    ELSE ReadLineFrom(f, p + 1, Append(acc, f[p]))

\* infile.readlines(): every line of the file from position p on.
RECURSIVE ReadLines(_, _)
ReadLines(f, p) ==
    IF p > Len(f) THEN <<>>
    ELSE LET r == ReadLineFrom(f, p, <<>>)
         IN  <<r.line>> \o ReadLines(f, r.next)

\* x[i], x[j] = x[j], x[i]
Swap(x, i, j) == [x EXCEPT ![i] = x[j], ![j] = x[i]]

InitShuffle ==
    /\ file \in SeqsUpTo(FileChars, MaxFileLen)
    /\ sh_pc = "read"
    /\ pos = 1
    /\ words = <<>>
    /\ idx = 0
    /\ widx = 0
    /\ stdout = <<>>
    /\ CalIdle
    /\ CefIdle

\* readlines() takes the next line of the open file.
ReadLine ==
    /\ sh_pc = "read"
    /\ pos <= Len(file)
    /\ LET r == ReadLineFrom(file, pos, <<>>)
       IN  /\ words' = Append(words, r.line)
           /\ pos' = r.next
    /\ UNCHANGED <<file, sh_pc, idx, widx, stdout, cal_vars, cef_vars>>

\* readlines() reaches the end of the file; the with block closes it and
\* random.shuffle starts at i = len(x) - 1 (here 1-based: Len(words)).
EndOfFile ==
    /\ sh_pc = "read"
    /\ pos > Len(file)
    /\ sh_pc' = "shuffle"
    /\ idx' = Len(words)
    /\ UNCHANGED <<file, pos, words, widx, stdout, cal_vars, cef_vars>>

\* One round of random.shuffle: for i in reversed(range(1, len(x))):
\* j = randbelow(i + 1); x[i], x[j] = x[j], x[i].
ShuffleStep ==
    /\ sh_pc = "shuffle"
    /\ idx >= 2
    /\ \E j \in 1..idx : words' = Swap(words, idx, j)
    /\ idx' = idx - 1
    /\ UNCHANGED <<file, sh_pc, pos, widx, stdout, cal_vars, cef_vars>>

\* The loop of random.shuffle ends; sys.stdout.writelines(words) starts.
ShuffleDone ==
    /\ sh_pc = "shuffle"
    /\ idx < 2
    /\ sh_pc' = "write"
    /\ widx' = 1
    /\ UNCHANGED <<file, pos, words, idx, stdout, cal_vars, cef_vars>>

\* writelines() writes the next element as it is, adding no terminator.
WriteLine ==
    /\ sh_pc = "write"
    /\ widx <= Len(words)
    /\ stdout' = stdout \o words[widx]
    /\ widx' = widx + 1
    /\ UNCHANGED <<file, sh_pc, pos, words, idx, cal_vars, cef_vars>>

\* writelines() has written every element; the script ends.
WriteDone ==
    /\ sh_pc = "write"
    /\ widx > Len(words)
    /\ sh_pc' = "done"
    /\ UNCHANGED <<file, pos, words, idx, widx, stdout, cal_vars, cef_vars>>

NextShuffle ==
    \/ ReadLine
    \/ EndOfFile
    \/ ShuffleStep
    \/ ShuffleDone
    \/ WriteLine
    \/ WriteDone

SpecShuffle == InitShuffle /\ [][NextShuffle]_vars

\* The text of a line without its terminator.
Chomp(line) ==
    IF Len(line) > 0 /\ line[Len(line)] = "\n"
    THEN SubSeq(line, 1, Len(line) - 1)
    ELSE line

\* The lines of a text, as a reader of text lines sees them.
TextLines(text) ==
    LET ls == ReadLines(text, 1) IN [i \in DOMAIN ls |-> Chomp(ls[i])]

\* C10: the lines written to standard output are the same multiset as the
\* lines of the input file (none lost, duplicated or altered), and nothing
\* is written before the whole file has been read.
C10_OutputIsPermutationOfLines ==
    /\ (stdout # <<>> => pos > Len(file))
    /\ (sh_pc = "done" =>
            SeqToBag(TextLines(stdout)) = SeqToBag(TextLines(file)))

(***************************************************************************)
(* jcsac_gen_cal.py: text of the arguments                                 *)
(***************************************************************************)
\* A string is a sequence of one-character strings.
DigitChars == <<"0", "1", "2", "3", "4", "5", "6", "7", "8", "9">>

IsDigit(c) == \E i \in DOMAIN DigitChars : DigitChars[i] = c

DigitVal(c) == (CHOOSE i \in DOMAIN DigitChars : DigitChars[i] = c) - 1

\* int(s) of a string of decimal digits.
RECURSIVE ParseInt(_)
ParseInt(s) ==
    IF s = <<>> THEN 0
    ELSE 10 * ParseInt(SubSeq(s, 1, Len(s) - 1)) + DigitVal(s[Len(s)])

\* n written with w decimal digits (how a caller writes YYYY, MM, DD).
RECURSIVE Digits(_, _)
Digits(n, w) ==
    IF w = 0 THEN <<>>
    ELSE Append(Digits(n \div 10, w - 1), DigitChars[(n % 10) + 1])

AllDigits(s) == \A i \in DOMAIN s : IsDigit(s[i])

\* What "$" of a pattern sees: the string, or the string without its one
\* trailing newline (re's "$" also matches just before a final newline).
BeforeDollar(s) ==
    IF Len(s) > 0 /\ s[Len(s)] = "\n" THEN {s, SubSeq(s, 1, Len(s) - 1)}
    ELSE {s}

\* re.match of a pattern ^([0-9]{a})S([0-9]{2})S([0-9]{2})$ with separator
\* S and a first group of a digits: the three groups, or <<>> for None.
MatchThree(s, a, sep) ==
    LET fits(t) ==
            /\ Len(t) = a + 6
            /\ AllDigits(SubSeq(t, 1, a))
            /\ t[a + 1] = sep
            /\ AllDigits(SubSeq(t, a + 2, a + 3))
            /\ t[a + 4] = sep
            /\ AllDigits(SubSeq(t, a + 5, a + 6))
    IN  IF \E t \in BeforeDollar(s) : fits(t)
        THEN <<SubSeq(s, 1, a), SubSeq(s, a + 2, a + 3), SubSeq(s, a + 5, a + 6)>>
        ELSE <<>>

\* DATE_RE = r"^([0-9]{4})-([0-9]{2})-([0-9]{2})$"
DATE_RE(s) == MatchThree(s, 4, "-")

\* TIME_RE = r"^([0-9]{2}):([0-9]{2}):([0-9]{2})$"
TIME_RE(s) == MatchThree(s, 2, ":")

\* DEFAULT_TIME = "17:00:00"
DEFAULT_TIME == <<"1", "7", ":", "0", "0", ":", "0", "0">>

DEFAULT_TZ == "America/Los_Angeles"

STORY_DL_HOUR == 9

RANKING_DL_HOUR == 9

\* The keys the time zone database knows (ZoneInfo raises for any other).
KnownZones == {"America/Los_Angeles", "UTC"}

(***************************************************************************)
(* jcsac_gen_cal.py: dates and times (datetime, date, timedelta)           *)
(***************************************************************************)
IsLeap(y) == y % 4 = 0 /\ (y % 100 # 0 \/ y % 400 = 0)

DaysInMonth(y, m) ==
    IF m = 2 THEN (IF IsLeap(y) THEN 29 ELSE 28)
    ELSE IF m \in {4, 6, 9, 11} THEN 30 ELSE 31

\* date(y, m, d) is accepted: otherwise the constructor raises ValueError.
ValidDate(y, m, d) ==
    /\ y \in 1..9999
    /\ m \in 1..12
    /\ d \in 1..DaysInMonth(y, m)

ValidTime(h, mi, s) == h \in 0..23 /\ mi \in 0..59 /\ s \in 0..59

MkDate(y, m, d) == [year |-> y, month |-> m, day |-> d]

MkDateTime(y, m, d, h, mi, s, tz) ==
    [year |-> y, month |-> m, day |-> d,
     hour |-> h, minute |-> mi, second |-> s, tzinfo |-> tz]

\* The day before and the day after a date; a year outside 1..9999 marks a
\* result that date arithmetic refuses with OverflowError.
PrevDay(dt) ==
    IF dt.day > 1 THEN [dt EXCEPT !.day = dt.day - 1]
    ELSE IF dt.month > 1
         THEN [dt EXCEPT !.month = dt.month - 1,
                         !.day = DaysInMonth(dt.year, dt.month - 1)]
         ELSE [dt EXCEPT !.year = dt.year - 1, !.month = 12, !.day = 31]

NextDay(dt) ==
    IF dt.day < DaysInMonth(dt.year, dt.month) THEN [dt EXCEPT !.day = dt.day + 1]
    ELSE IF dt.month < 12
         THEN [dt EXCEPT !.month = dt.month + 1, !.day = 1]
         ELSE [dt EXCEPT !.year = dt.year + 1, !.month = 1, !.day = 1]

InRange(dt) == dt.year \in 1..9999

\* date - timedelta(days=n)
RECURSIVE DateMinusDays(_, _)
DateMinusDays(dt, n) ==
    IF n = 0 \/ ~InRange(dt) THEN dt ELSE DateMinusDays(PrevDay(dt), n - 1)

\* datetime + timedelta(hours=n), for n below 24: the wall clock moves on
\* and the tzinfo is kept.
PlusHours(dt, n) ==
    IF dt.hour + n < 24 THEN [dt EXCEPT !.hour = dt.hour + n]
    ELSE [NextDay(dt) EXCEPT !.hour = dt.hour + n - 24]

(***************************************************************************)
(* jcsac_gen_cal.py: the events                                            *)
(***************************************************************************)
\* gen_alarm(alert_time, description); alert_time in hours.
gen_alarm(alert_time, description) ==
    [action |-> "DISPLAY", trigger |-> alert_time, description |-> description]

dl1_event(d) ==
    [summary |-> <<"space story submission deadline for Aerospace Chat ",
                   d["jcsac_date"]>>,
     description |-> "Space Crew story submissions due",
     dtstart |-> d["story_dl_dt"],
     dtend |-> d["story_dl_dt"],
     created |-> d["now"],
     alarm |-> gen_alarm(-24, "submit space stories for Aerospace Chat"),
     sequence |-> 0]

dl2_event(d) ==
    [summary |-> <<"space story ranking deadline for Aerospace Chat ",
                   d["jcsac_date"]>>,
     description |-> "Space Crew story rankings due",
     dtstart |-> d["ranking_dl_dt"],
     dtend |-> d["ranking_dl_dt"],
     created |-> d["now"],
     alarm |-> gen_alarm(-6, "submit space story ranking for Aerospace Chat"),
     sequence |-> 1]

jcs_event(d) ==
    [summary |-> <<"JetCityStar Aerospace Chat ", d["jcsac_date"]>>,
     description |-> "Aerospace chat hosted by Isaac @JetCityStar and Nick @JetTipNet",
     dtstart |-> d["chat_start"],
     dtend |-> d["chat_end"],
     created |-> d["now"],
     alarm |-> gen_alarm(-1, "@JetCityStar Aerospace Chat"),
     sequence |-> 2]

\* chat_date - timedelta(days=3) and chat_date - timedelta(days=2)
story_dl_date(chat_date) == DateMinusDays(chat_date, 3)

\* The ranking deadline computed like the story deadline (days=3 for days=2).
ranking_dl_date_SameAsStory(chat_date) == DateMinusDays(chat_date, 3)

ranking_dl_date(chat_date) == DateMinusDays(chat_date, 2)

\* chat_start + timedelta(hours=2)
chat_end_of(chat_start) == PlusHours(chat_start, 2)

(***************************************************************************)
(* jcsac_gen_cal.py: the command lines of the model                        *)
(***************************************************************************)
\* Years, months and days a date argument is written with: the ends of the
\* range of datetime, leap and common years, and the days at both ends of a
\* month, valid or not.
ArgYears == {0, 1, 2023, 2024, 2100, 9999}

ArgMonths == {0, 1, 2, 3, 5, 12, 13}

ArgDays == {0, 1, 2, 3, 4, 28, 29, 30, 31, 32}

FormatDate(y, m, d) == Digits(y, 4) \o <<"-">> \o Digits(m, 2) \o <<"-">> \o Digits(d, 2)

FormatTime(h, mi, s) == Digits(h, 2) \o <<":">> \o Digits(mi, 2) \o <<":">> \o Digits(s, 2)

\* Date arguments that are not YYYY-MM-DD, and one that only ends in a
\* newline.
OddDates ==
    { <<>>,
      <<"2", "0", "2", "4", "-", "1", "-", "0", "5">>,
      <<"2", "0", "2", "4", "/", "0", "1", "/", "0", "5">>,
      <<"2", "0", "2", "4", "-", "0", "1", "-", "0", "5", "x">>,
      <<"x", "2", "0", "2", "4", "-", "0", "1", "-", "0", "5">>,
      <<"2", "0", "2", "4", "-", "0", "1", "-", "0", "x">>,
      <<"2", "0", "2", "4", "-", "0", "1", "-", "0", "5", "\n">> }

DateArgs ==
    {FormatDate(y, m, d) : y \in ArgYears, m \in ArgMonths, d \in ArgDays}
        \cup OddDates

ArgTimes ==
    { <<0, 0, 0>>, <<8, 59, 59>>, <<9, 0, 0>>, <<17, 0, 0>>, <<21, 59, 59>>,
      <<22, 0, 0>>, <<23, 59, 59>>, <<24, 0, 0>>, <<12, 60, 0>>, <<12, 0, 60>> }

OddTimes ==
    { <<"1", "7", ":", "0", "0">>,
      <<"1", "7", "-", "0", "0", "-", "0", "0">>,
      <<"1", "7", ":", "0", "0", ":", "0", "0", "\n">> }

TimeArgs == {FormatTime(t[1], t[2], t[3]) : t \in ArgTimes} \cup OddTimes

ZoneArgs == {"UTC", "Mars/Olympus_Mons"}

\* sys.argv[1:]: nothing, a date, a date and a time, or all three.
CommandLines ==
    {[n |-> 0, date |-> <<>>, time |-> <<>>, zone |-> ""]}
        \cup {[n |-> 1, date |-> d, time |-> <<>>, zone |-> ""] : d \in DateArgs}
        \cup {[n |-> 2, date |-> d, time |-> t, zone |-> ""] :
                    d \in DateArgs, t \in TimeArgs}
        \cup {[n |-> 3, date |-> d, time |-> t, zone |-> z] :
                    d \in DateArgs, t \in TimeArgs, z \in ZoneArgs}

\* The values datetime.now() gives in the model.
Nows(tz) == {MkDateTime(2024, 1, 1, 12, 0, 0, tz), MkDateTime(2024, 6, 30, 8, 30, 0, tz)}

\* The random part of the directory name tempfile.mkdtemp makes.
TmpSuffixes == {"k3x9", "q0zt"}

(***************************************************************************)
(* jcsac_gen_cal.py: run()                                                 *)
(***************************************************************************)
InitCal ==
    /\ argv \in CommandLines
    /\ cal_pc = "start"
    /\ d_t = <<>>
    /\ cal = [built |-> FALSE, components |-> <<>>]
    /\ cal_out = <<>>
    /\ outfiles = {}
    /\ raised = ""
    /\ rc = -1
    /\ ShuffleIdle
    /\ CefIdle

\* d_t[key] = value
Put(d, key, value) == (key :> value) @@ d

Raise(exception) ==
    /\ raised' = exception
    /\ cal_pc' = "raised"

\* Lines 93-99: no argument prints the usage and returns 1; a date that
\* does not match DATE_RE raises.
ReadDate ==
    /\ cal_pc = "start"
    /\ IF argv.n = 0
       THEN /\ cal_out' = Append(cal_out, [stream |-> "stderr", what |-> "usage"])
            /\ rc' = 1
            /\ cal_pc' = "returned"
            /\ UNCHANGED <<d_t, raised>>
       ELSE LET d1 == Put(d_t, "jcsac_date", argv.date)
                date_result == DATE_RE(d1["jcsac_date"])
            IN  /\ d_t' = d1
                /\ IF date_result = <<>>
                   THEN Raise("RuntimeError: date must be formatted as YYYY-MM-DD")
                   ELSE /\ cal_pc' = "time"
                        /\ UNCHANGED raised
                /\ UNCHANGED <<cal_out, rc>>
    /\ UNCHANGED <<argv, cal, outfiles, sh_vars, cef_vars>>

\* Lines 100-103: the time argument, or DEFAULT_TIME, must match TIME_RE.
ReadTime ==
    /\ cal_pc = "time"
    /\ LET d1 == Put(d_t, "jcsac_time", IF argv.n >= 2 THEN argv.time ELSE DEFAULT_TIME)
           time_result == TIME_RE(d1["jcsac_time"])
       IN  /\ d_t' = d1
           /\ IF time_result = <<>>
              THEN Raise("RuntimeError: time must be formatted as HH:MM::SS, if provided")
              ELSE /\ cal_pc' = "zone"
                   /\ UNCHANGED raised
    /\ UNCHANGED <<argv, cal, cal_out, outfiles, rc, sh_vars, cef_vars>>

\* Lines 104-105: ZoneInfo(jcsac_zone) raises for a key it does not know.
ReadZone ==
    /\ cal_pc = "zone"
    /\ LET jcsac_zone == IF argv.n >= 3 THEN argv.zone ELSE DEFAULT_TZ
       IN  IF jcsac_zone \in KnownZones
           THEN /\ d_t' = Put(d_t, "jcsac_tz", jcsac_zone)
                /\ cal_pc' = "compute"
                /\ UNCHANGED raised
           ELSE /\ Raise("ZoneInfoNotFoundError")
                /\ UNCHANGED d_t
    /\ UNCHANGED <<argv, cal, cal_out, outfiles, rc, sh_vars, cef_vars>>

\* Lines 108-121: now, chat_start (printed), chat_date, chat_end and the
\* two deadlines.  datetime() raises ValueError for a date or time that
\* does not exist, date arithmetic OverflowError outside years 1..9999.
ComputeDates ==
    /\ cal_pc = "compute"
    /\ \E now \in Nows(d_t["jcsac_tz"]) :
        LET date_result == DATE_RE(d_t["jcsac_date"])
            time_result == TIME_RE(d_t["jcsac_time"])
            y  == ParseInt(date_result[1])
            m  == ParseInt(date_result[2])
            d  == ParseInt(date_result[3])
            h  == ParseInt(time_result[1])
            mi == ParseInt(time_result[2])
            s  == ParseInt(time_result[3])
            tz == d_t["jcsac_tz"]
            d1 == Put(d_t, "now", now)
        IN  IF ~(ValidDate(y, m, d) /\ ValidTime(h, mi, s))
            THEN /\ d_t' = d1
                 /\ Raise("ValueError")
                 /\ UNCHANGED cal_out
            ELSE
              LET chat_start == MkDateTime(y, m, d, h, mi, s, tz)
                  d2 == Put(d1, "chat_start", chat_start)
                  chat_date == MkDate(chat_start.year, chat_start.month, chat_start.day)
                  d3 == Put(d2, "chat_date", chat_date)
                  chat_end == chat_end_of(chat_start)
                  d4 == Put(d3, "chat_end", chat_end)
                  story == story_dl_date(chat_date)
                  d5 == Put(d4, "story_dl_dt",
                            MkDateTime(story.year, story.month, story.day,
                                       STORY_DL_HOUR, 0, 0, tz))
                  ranking == ranking_dl_date(chat_date)
                  d6 == Put(d5, "ranking_dl_dt",
                            MkDateTime(ranking.year, ranking.month, ranking.day,
                                       RANKING_DL_HOUR, 0, 0, tz))
              IN  /\ cal_out' = Append(cal_out,
                        [stream |-> "stdout", what |-> "JCS Aerospace Chat time: ",
                         value |-> chat_start])
                  /\ IF ~InRange(chat_end)
                     THEN d_t' = d3 /\ Raise("OverflowError")
                     ELSE IF ~InRange(story)
                     THEN d_t' = d4 /\ Raise("OverflowError")
                     ELSE IF ~InRange(ranking)
                     THEN d_t' = d5 /\ Raise("OverflowError")
                     ELSE d_t' = d6 /\ cal_pc' = "calendar" /\ UNCHANGED raised
    /\ UNCHANGED <<argv, cal, outfiles, rc, sh_vars, cef_vars>>

\* Line 124: cal = Calendar()
NewCalendar ==
    /\ cal_pc = "calendar"
    /\ cal' = [built |-> TRUE, components |-> <<>>]
    /\ cal_pc' = "dl1"
    /\ UNCHANGED <<argv, d_t, cal_out, outfiles, raised, rc, sh_vars, cef_vars>>

\* Line 127: cal.add_component(dl1_event(d_t))
AddDl1 ==
    /\ cal_pc = "dl1"
    /\ cal' = [cal EXCEPT !.components = Append(@, dl1_event(d_t))]
    /\ cal_pc' = "dl2"
    /\ UNCHANGED <<argv, d_t, cal_out, outfiles, raised, rc, sh_vars, cef_vars>>

\* Line 130: cal.add_component(dl2_event(d_t))
AddDl2 ==
    /\ cal_pc = "dl2"
    /\ cal' = [cal EXCEPT !.components = Append(@, dl2_event(d_t))]
    /\ cal_pc' = "jcs"
    /\ UNCHANGED <<argv, d_t, cal_out, outfiles, raised, rc, sh_vars, cef_vars>>

\* Line 133: cal.add_component(jcs_event(d_t))
AddJcs ==
    /\ cal_pc = "jcs"
    /\ cal' = [cal EXCEPT !.components = Append(@, jcs_event(d_t))]
    /\ cal_pc' = "write"
    /\ UNCHANGED <<argv, d_t, cal_out, outfiles, raised, rc, sh_vars, cef_vars>>

\* Lines 136-142: print the calendar, write it to
\* <mkdtemp>/jcsac-space-<date>.ics, print the path, return 0.
WriteOutput ==
    /\ cal_pc = "write"
    /\ \E suffix \in TmpSuffixes :
        LET directory == <<"jcsac-space", suffix>>
            outpath == <<directory, "jcsac-space-", d_t["jcsac_date"], ".ics">>
        IN  /\ cal_out' = cal_out \o
                    << [stream |-> "stdout", what |-> "to_ical", value |-> cal.components],
                       [stream |-> "stdout", what |-> "output to ", value |-> outpath] >>
            /\ outfiles' = outfiles \cup {[path |-> outpath, content |-> cal.components]}
    /\ rc' = 0
    /\ cal_pc' = "returned"
    /\ UNCHANGED <<argv, d_t, cal, raised, sh_vars, cef_vars>>

NextCal ==
    \/ ReadDate
    \/ ReadTime
    \/ ReadZone
    \/ ComputeDates
    \/ NewCalendar
    \/ AddDl1
    \/ AddDl2
    \/ AddJcs
    \/ WriteOutput

SpecCal == InitCal /\ [][NextCal]_vars

(***************************************************************************)
(* jcsac_gen_cal.py: properties                                            *)
(***************************************************************************)
\* The proleptic Gregorian day number of a date (1 for 0001-01-01).
RECURSIVE DaysBeforeMonth(_, _)
DaysBeforeMonth(y, m) ==
    IF m <= 1 THEN 0 ELSE DaysBeforeMonth(y, m - 1) + DaysInMonth(y, m - 1)

Ordinal(dt) ==
    LET y == dt.year - 1
    IN  y * 365 + (y \div 4) - (y \div 100) + (y \div 400)
            + DaysBeforeMonth(dt.year, dt.month) + dt.day

SecondOfDay(dt) == dt.hour * 3600 + dt.minute * 60 + dt.second

\* b - a in seconds on the wall clock: two datetimes of one tzinfo
\* subtract, and compare, by their dates and times of day alone.
WallSecondsBetween(a, b) ==
    (Ordinal(b) - Ordinal(a)) * 86400 + SecondOfDay(b) - SecondOfDay(a)

DtLess(a, b) == a.tzinfo = b.tzinfo /\ WallSecondsBetween(a, b) > 0

\* The date and the time the command line asks for.
ArgTimeText == IF argv.n >= 2 THEN argv.time ELSE DEFAULT_TIME

ArgsMatch == argv.n >= 1 /\ DATE_RE(argv.date) # <<>> /\ TIME_RE(ArgTimeText) # <<>>

ArgChatStart ==
    LET dr == DATE_RE(argv.date)
        tr == TIME_RE(ArgTimeText)
    IN  [year |-> ParseInt(dr[1]), month |-> ParseInt(dr[2]), day |-> ParseInt(dr[3]),
         hour |-> ParseInt(tr[1]), minute |-> ParseInt(tr[2]), second |-> ParseInt(tr[3])]

AtNine(dt) == dt.hour = 9 /\ dt.minute = 0 /\ dt.second = 0

\* C9: the events are added in the order story deadline, ranking deadline,
\* chat, with sequence numbers 0, 1, 2; the story deadline is 09:00 three
\* days before the chat date, the ranking deadline 09:00 two days before
\* it, the chat ends two hours after it starts, so that story deadline <
\* ranking deadline < chat start < chat end; and a date or time argument
\* that does not match its pattern ends run() with the RuntimeError before
\* a calendar is built or a file written.
C9_EventsOrdered ==
    LET ev == cal.components
        n  == Len(ev)
    IN  /\ \A i \in 1..n : ev[i].sequence = i - 1
        /\ n >= 1 =>
              /\ ArgsMatch
              /\ ev[1].dtend = ev[1].dtstart
              /\ AtNine(ev[1].dtstart)
              /\ Ordinal(ev[1].dtstart) = Ordinal(ArgChatStart) - 3
        /\ n >= 2 =>
              /\ ev[2].dtend = ev[2].dtstart
              /\ AtNine(ev[2].dtstart)
              /\ Ordinal(ev[2].dtstart) = Ordinal(ArgChatStart) - 2
              /\ DtLess(ev[1].dtstart, ev[2].dtstart)
        /\ n >= 3 =>
              /\ WallSecondsBetween(ArgChatStart, ev[3].dtstart) = 0
              /\ WallSecondsBetween(ev[3].dtstart, ev[3].dtend) = 2 * 3600
              /\ DtLess(ev[2].dtstart, ev[3].dtstart)
              /\ DtLess(ev[3].dtstart, ev[3].dtend)
        /\ rc = 0 =>
              /\ n = 3
              /\ \E f \in outfiles : f.content = ev
        /\ (argv.n >= 1 /\ ~ArgsMatch) =>
              /\ ~cal.built
              /\ outfiles = {}
              /\ cal_pc \in {"start", "time", "raised"}
              /\ DATE_RE(argv.date) = <<>> => cal_pc # "time"
              /\ cal_pc = "raised" =>
                    raised \in {"RuntimeError: date must be formatted as YYYY-MM-DD",
                                "RuntimeError: time must be formatted as HH:MM::SS, if provided"}

\* A run that wrote its file for a chat whose deadlines fall in the month
\* before it and which ends on the day after it starts.
C9_Witness ==
    /\ rc = 0
    /\ Len(cal.components) = 3
    /\ cal.components[1].dtstart.month # cal.components[3].dtstart.month
    /\ cal.components[2].dtstart.month # cal.components[3].dtstart.month
    /\ cal.components[3].dtend.day # cal.components[3].dtstart.day

(***************************************************************************)
(* cef_syntax_diagrams.py: the railroad diagrams                           *)
(***************************************************************************)
\* The items of the railroad library that run() builds diagrams from.  A
\* string given as an item is a Terminal with that text.
Terminal(text) == [node |-> "Terminal", text |-> text]

Skip == [node |-> "Skip"]

Sequence(items) == [node |-> "Sequence", items |-> items]

\* Choice(default, *items)
Choice(default, items) == [node |-> "Choice", default |-> default, items |-> items]

\* OneOrMore(item, repeat): item, then any number of times repeat and item.
OneOrMore(item, repeat) == [node |-> "OneOrMore", item |-> item, repeat |-> repeat]

\* Optional(item, skip=True): the item or nothing.
Optional(item) == [node |-> "Optional", item |-> item, skip |-> TRUE]

Group(item, label) == [node |-> "Group", item |-> item, label |-> label]

\* Lines 23-24
word == Choice(0, <<Terminal("WORD"), Terminal("INT")>>)

cef_words == OneOrMore(word, Skip)

\* Lines 27 and 30
quantifier == Sequence(<<Terminal("*"), Terminal("INT")>>)

weight == Sequence(<<Terminal("^"), Terminal("INT")>>)

\* The multipliers without the alternative that puts the weight first.
multipliers_NoWeightFirst ==
    Optional(
        Group(
            Choice(0,
                << Sequence(<<Terminal("quantifier"), Terminal("weight")>>),
                   Terminal("quantifier"),
                   Terminal("weight") >>),
            "multipliers"))

\* The multipliers as a repeatable choice of quantifier and weight.
multipliers_Repeatable ==
    Optional(
        Group(
            OneOrMore(Choice(0, <<Terminal("quantifier"), Terminal("weight")>>), Skip),
            "multipliers"))

\* Lines 33-45
multipliers ==
    Optional(
        Group(
            Choice(0,
                << Sequence(<<Terminal("quantifier"), Terminal("weight")>>),
                   Sequence(<<Terminal("weight"), Terminal("quantifier")>>),
                   Terminal("quantifier"),
                   Terminal("weight") >>),
            "multipliers"))

\* Lines 46 and 49
candidate == Terminal("words")

tag == Terminal("words")

\* Lines 52-56
equal_list == OneOrMore(Terminal("candidate"), Terminal("="))

\* The empty-ranking marker as one more thing a ">" list may hold.
choice_list_MarkerInList ==
    Group(OneOrMore(Choice(0, <<equal_list, Terminal("/EMPTY_RANKING/")>>), Terminal(">")),
          "candidates")

choice_list ==
    Group(Choice(0, <<OneOrMore(equal_list, Terminal(">")),
                      Terminal("/EMPTY_RANKING/")>>),
          "candidates")

ranking == Sequence(<<choice_list, multipliers>>)

tags == OneOrMore(Terminal("tag"), Terminal(","))

line ==
    Sequence(<<Optional(Group(Sequence(<<tags, Terminal("||")>>), "tags")), ranking>>)

\* The outsvg() calls of run(), in order: element, name, is_complex.
OutsvgCalls ==
    << [element |-> cef_words,  name |-> "words",      is_complex |-> FALSE],
       [element |-> quantifier, name |-> "quantifier", is_complex |-> FALSE],
       [element |-> weight,     name |-> "weight",     is_complex |-> FALSE],
       [element |-> candidate,  name |-> "candidate",  is_complex |-> FALSE],
       [element |-> tag,        name |-> "tag",        is_complex |-> FALSE],
       [element |-> line,       name |-> "line",       is_complex |-> TRUE] >>

\* Diagram(Start(diag_type, name), element, End(diag_type)), written to
\* syndiag-cef-<name>.svg.
outsvg(files, element, name, is_complex) ==
    (name :> [diag_type |-> IF is_complex THEN "complex" ELSE "simple",
              start |-> name, element |-> element]) @@ files

(***************************************************************************)
(* Reading a diagram: the token sequences it describes                     *)
(***************************************************************************)
\* Match(files, item, toks, i): the positions a path through the item can
\* reach when it starts at token i.  A box whose text is the name of a
\* written diagram stands for that diagram; any other box is one token of
\* that kind.
RECURSIVE Match(_, _, _, _)
RECURSIVE MatchSequence(_, _, _, _, _)
RECURSIVE MatchMore(_, _, _, _, _)

Match(files, item, toks, i) ==
    CASE item.node = "Terminal" ->
            IF item.text \in DOMAIN files
            THEN Match(files, files[item.text].element, toks, i)
            ELSE IF i <= Len(toks) /\ toks[i].kind = item.text THEN {i + 1} ELSE {}
      [] item.node = "Skip" -> {i}
      [] item.node = "Sequence" -> MatchSequence(files, item.items, 1, toks, {i})
      [] item.node = "Choice" ->
            UNION {Match(files, item.items[k], toks, i) : k \in DOMAIN item.items}
      [] item.node = "Optional" -> {i} \cup Match(files, item.item, toks, i)
      [] item.node = "Group" -> Match(files, item.item, toks, i)
      [] item.node = "OneOrMore" -> MatchMore(files, item.item, item.repeat, toks, i)

MatchSequence(files, items, k, toks, from) ==
    IF k > Len(items) \/ from = {} THEN from
    ELSE MatchSequence(files, items, k + 1, toks,
                       UNION {Match(files, items[k], toks, i) : i \in from})

MatchMore(files, item, repeat, toks, i) ==
    LET once  == Match(files, item, toks, i)
        again == {k \in UNION {Match(files, repeat, toks, j) : j \in once} : k > i}
    IN  once \cup UNION {MatchMore(files, item, repeat, toks, k) : k \in again}

\* The diagram called name describes the whole token sequence.
Describes(files, name, toks) ==
    /\ name \in DOMAIN files
    /\ (Len(toks) + 1) \in Match(files, files[name].element, toks, 1)

(***************************************************************************)
(* The CEF line pipeline of the design: parse_line, validate, build_ballot *)
(***************************************************************************)
\* A token: its kind, written as the diagrams write it, and its text.
Token(kind, text) == [kind |-> kind, text |-> text]

IsNameToken(t) == t.kind \in {"WORD", "INT"}

KindAt(toks, i) == IF i <= Len(toks) THEN toks[i].kind ELSE "end of line"

\* name := (Word | Integer)+ : the end of the maximal run that starts at i.
RECURSIVE NameEnd(_, _)
NameEnd(toks, i) ==
    IF i <= Len(toks) /\ IsNameToken(toks[i]) THEN NameEnd(toks, i + 1) ELSE i

\* The name made of tokens i .. j-1: the texts of its tokens.
NameOf(toks, i, j) == [k \in 1..(j - i) |-> toks[i + k - 1].text]

ParseError(e) == [ok |-> FALSE, err |-> e, line |-> NoLine]

\* tag_section := tag { "," tag }, up to and including "||".
RECURSIVE ParseTagSection(_, _, _)
ParseTagSection(toks, i, acc) ==
    LET e == NameEnd(toks, i)
    IN  IF e = i
        THEN [ok |-> FALSE, err |-> "UnexpectedToken", names |-> <<>>, next |-> i]
        ELSE IF KindAt(toks, e) = ","
        THEN ParseTagSection(toks, e + 1, Append(acc, NameOf(toks, i, e)))
        ELSE IF KindAt(toks, e) = "||"
        THEN [ok |-> TRUE, err |-> "", names |-> Append(acc, NameOf(toks, i, e)),
              next |-> e + 1]
        ELSE [ok |-> FALSE, err |-> "UnexpectedToken", names |-> <<>>, next |-> e]

\* One token of lookahead after the first name: "," or "||" starts a tag
\* section, anything else belongs to the ranking.
HasTagSection(toks) ==
    LET e == NameEnd(toks, 1) IN e > 1 /\ KindAt(toks, e) \in {",", "||"}

\* tie_group { ">" tie_group } with tie_group := name { "=" name }.
RECURSIVE ParseTieGroups(_, _, _, _)
ParseTieGroups(toks, i, groups, current) ==
    LET e == NameEnd(toks, i)
    IN  IF e = i
        THEN [ok |-> FALSE, err |-> "UnexpectedToken", empty |-> FALSE,
              groups |-> <<>>, next |-> i]
        ELSE IF KindAt(toks, e) = "="
        THEN ParseTieGroups(toks, e + 1, groups, Append(current, NameOf(toks, i, e)))
        ELSE IF KindAt(toks, e) = ">"
        THEN ParseTieGroups(toks, e + 1,
                            Append(groups, Append(current, NameOf(toks, i, e))), <<>>)
        ELSE [ok |-> TRUE, err |-> "", empty |-> FALSE,
              groups |-> Append(groups, Append(current, NameOf(toks, i, e))),
              next |-> e]

\* choice_list := "/EMPTY_RANKING/" | tie_group { ">" tie_group }
ParseChoiceList(toks, i) ==
    IF KindAt(toks, i) = "/EMPTY_RANKING/"
    THEN [ok |-> TRUE, err |-> "", empty |-> TRUE, groups |-> <<>>, next |-> i + 1]
    ELSE ParseTieGroups(toks, i, <<>>, <<>>)

\* The multiplier: two optional fields filled by a lookahead loop on "*"
\* and "^"; a component met a second time is an error, and so is anything
\* else that follows the ranking.
RECURSIVE ParseMultiplier(_, _, _, _)
ParseMultiplier(toks, i, q, w) ==
    IF i > Len(toks) THEN [ok |-> TRUE, err |-> "", q |-> q, w |-> w]
    ELSE IF toks[i].kind = "*"
    THEN IF q.present
         THEN [ok |-> FALSE, err |-> "DuplicateMultiplierComponent", q |-> q, w |-> w]
         ELSE IF KindAt(toks, i + 1) # "INT"
         THEN [ok |-> FALSE, err |-> "UnexpectedToken", q |-> q, w |-> w]
         ELSE ParseMultiplier(toks, i + 2,
                    [present |-> TRUE, value |-> ParseInt(toks[i + 1].text)], w)
    ELSE IF toks[i].kind = "^"
    THEN IF w.present
         THEN [ok |-> FALSE, err |-> "DuplicateMultiplierComponent", q |-> q, w |-> w]
         ELSE IF KindAt(toks, i + 1) # "INT"
         THEN [ok |-> FALSE, err |-> "UnexpectedToken", q |-> q, w |-> w]
         ELSE ParseMultiplier(toks, i + 2, q,
                    [present |-> TRUE, value |-> ParseInt(toks[i + 1].text)])
    ELSE [ok |-> FALSE, err |-> "UnexpectedToken", q |-> q, w |-> w]

\* line := [ tag_section "||" ] ranking ; ranking := choice_list [ multiplier ]
parse_line(toks) ==
    IF toks = <<>> THEN ParseError("EmptyInput")
    ELSE
      LET ts == IF HasTagSection(toks) THEN ParseTagSection(toks, 1, <<>>)
                ELSE [ok |-> TRUE, err |-> "", names |-> <<>>, next |-> 1]
      IN  IF ~ts.ok THEN ParseError(ts.err)
          ELSE IF ts.next > Len(toks) THEN ParseError("EmptyInput")
          ELSE
            LET cl == ParseChoiceList(toks, ts.next)
            IN  IF ~cl.ok THEN ParseError(cl.err)
                ELSE
                  LET mu == ParseMultiplier(toks, cl.next, NoLine.quantifier, NoLine.weight)
                  IN  IF ~mu.ok THEN ParseError(mu.err)
                      ELSE [ok |-> TRUE, err |-> "",
                            line |-> [has_tags |-> HasTagSection(toks),
                                      tags |-> ts.names,
                                      empty |-> cl.empty,
                                      groups |-> cl.groups,
                                      quantifier |-> mu.q,
                                      weight |-> mu.w]]

\* validate: the five checks in their order, the first failure wins.
validate(ln) ==
    IF \E g, h \in DOMAIN ln.groups :
            g # h /\ \E i \in DOMAIN ln.groups[g], j \in DOMAIN ln.groups[h] :
                        ln.groups[g][i] = ln.groups[h][j]
    THEN "DuplicateCandidate"
    ELSE IF \E g \in DOMAIN ln.groups :
                \E i, j \in DOMAIN ln.groups[g] : i # j /\ ln.groups[g][i] = ln.groups[g][j]
    THEN "TiedSelfDuplicate"
    ELSE IF ln.quantifier.present /\ ln.quantifier.value < 1 THEN "ZeroQuantifier"
    ELSE IF ln.weight.present /\ ln.weight.value < 1 THEN "ZeroWeight"
    ELSE IF \E i \in DOMAIN ln.tags : ln.tags[i] = <<>> THEN "EmptyTagName"
    ELSE "ok"

\* build_ballot: an empty ranking gives no groups; an absent quantifier or
\* weight counts as 1; the tags keep their order.
build_ballot(ln) ==
    [built |-> TRUE,
     tag_list |-> ln.tags,
     ranked_groups |-> IF ln.empty THEN <<>>
                       ELSE [g \in DOMAIN ln.groups |-> Range(ln.groups[g])],
     count |-> IF ln.quantifier.present THEN ln.quantifier.value ELSE 1,
     weight |-> IF ln.weight.present THEN ln.weight.value ELSE 1]

(***************************************************************************)
(* The lines of the model                                                  *)
(***************************************************************************)
\* Longest line made of arbitrary tokens.
MaxTokens == 4

\* Most multiplier components written after a ranking.
MaxMultipliers == 3

Wa == Token("WORD", <<"a">>)
Wb == Token("WORD", <<"b">>)
Integer(d) == Token("INT", <<d>>)
Star == Token("*", <<"*">>)
Caret == Token("^", <<"^">>)
Equals == Token("=", <<"=">>)
GreaterThan == Token(">", <<">">>)
Comma == Token(",", <<",">>)
DoublePipe == Token("||", <<"|", "|">>)
EmptyMarker == Token("/EMPTY_RANKING/", <<"/EMPTY_RANKING/">>)

\* One token of every kind.
AnyTokens ==
    {Wa, Integer("1"), Star, Caret, Equals, GreaterThan, Comma, DoublePipe, EmptyMarker}

\* Lines put together from a tag part, a ranking part and multiplier
\* components, repeated components and repeated candidates included.
TagParts ==
    { <<>>,
      <<Wa, DoublePipe>>,
      <<Wa, Comma, Wb, DoublePipe>>,
      <<Wa, Integer("1"), Comma, Wa, DoublePipe>> }

RankingParts ==
    { <<EmptyMarker>>,
      <<Wa>>,
      <<Wa, GreaterThan, Wb>>,
      <<Wa, Equals, Wb>>,
      <<Wa, Equals, Wb, GreaterThan, Wa, Integer("1")>>,
      <<Wa, GreaterThan, Wb, Equals, Wa>>,
      <<Wa, Equals, Wa, GreaterThan, Wb>> }

Components == {<<s, Integer(d)>> : s \in {Star, Caret}, d \in {"0", "1", "2"}}

RECURSIVE Flatten(_)
Flatten(ss) == IF ss = <<>> THEN <<>> ELSE Head(ss) \o Flatten(Tail(ss))

MultiplierParts == {Flatten(cs) : cs \in SeqsUpTo(Components, MaxMultipliers)}

CefLines ==
    SeqsUpTo(AnyTokens, MaxTokens)
        \cup {t \o r \o m : t \in TagParts, r \in RankingParts, m \in MultiplierParts}

(***************************************************************************)
(* cef_syntax_diagrams.py run(), then lines read against its diagrams      *)
(***************************************************************************)
InitCef ==
    /\ svg = <<>>
    /\ cef_pc = "run"
    /\ cef_step = 0
    /\ tokens = <<>>
    /\ accepted = "?"
    /\ parsed = NoParse
    /\ checked = ""
    /\ ballot = NoBallot
    /\ ShuffleIdle
    /\ CalIdle

\* The next outsvg() call of run().
Outsvg ==
    /\ cef_pc = "run"
    /\ cef_step < Len(OutsvgCalls)
    /\ LET c == OutsvgCalls[cef_step + 1]
       IN  svg' = outsvg(svg, c.element, c.name, c.is_complex)
    /\ cef_step' = cef_step + 1
    /\ UNCHANGED <<cef_pc, tokens, accepted, parsed, checked, ballot, sh_vars, cal_vars>>

\* run() returns after its last outsvg() call.
RunReturns ==
    /\ cef_pc = "run"
    /\ cef_step = Len(OutsvgCalls)
    /\ cef_pc' = "returned"
    /\ UNCHANGED <<svg, cef_step, tokens, accepted, parsed, checked, ballot,
                   sh_vars, cal_vars>>

\* A tokenized line arrives.
ReadTokens ==
    /\ cef_pc = "returned"
    /\ tokens' \in CefLines
    /\ cef_pc' = "match"
    /\ UNCHANGED <<svg, cef_step, accepted, parsed, checked, ballot, sh_vars, cal_vars>>

\* The line is held against the written "line" diagram.
MatchLine ==
    /\ cef_pc = "match"
    /\ accepted' = IF Describes(svg, "line", tokens) THEN "yes" ELSE "no"
    /\ cef_pc' = "parse"
    /\ UNCHANGED <<svg, cef_step, tokens, parsed, checked, ballot, sh_vars, cal_vars>>

ParseLine ==
    /\ cef_pc = "parse"
    /\ parsed' = parse_line(tokens)
    /\ cef_pc' = IF parsed'.ok THEN "validate" ELSE "done"
    /\ UNCHANGED <<svg, cef_step, tokens, accepted, checked, ballot, sh_vars, cal_vars>>

Validate ==
    /\ cef_pc = "validate"
    /\ checked' = validate(parsed.line)
    /\ cef_pc' = IF checked' = "ok" THEN "build" ELSE "done"
    /\ UNCHANGED <<svg, cef_step, tokens, accepted, parsed, ballot, sh_vars, cal_vars>>

BuildBallot ==
    /\ cef_pc = "build"
    /\ ballot' = build_ballot(parsed.line)
    /\ cef_pc' = "done"
    /\ UNCHANGED <<svg, cef_step, tokens, accepted, parsed, checked, sh_vars, cal_vars>>

NextCef ==
    \/ Outsvg
    \/ RunReturns
    \/ ReadTokens
    \/ MatchLine
    \/ ParseLine
    \/ Validate
    \/ BuildBallot

SpecCef == InitCef /\ [][NextCef]_vars

\* C4: the "line" diagram describes a token sequence exactly when
\* parse_line accepts it.
C4_DiagramIffParse ==
    cef_pc \in {"validate", "build", "done"} => (accepted = "yes" <=> parsed.ok)

\* A line with a tag section, two tie groups, one of two candidates, and
\* both multiplier components, described by the diagram, parsed and built.
C4_Witness ==
    /\ accepted = "yes"
    /\ parsed.ok
    /\ ballot.built
    /\ parsed.line.has_tags
    /\ Len(parsed.line.groups) = 2
    /\ Len(parsed.line.groups[1]) = 2
    /\ parsed.line.quantifier.present
    /\ parsed.line.weight.present

(***************************************************************************)
(* The parts of a line, read off its tokens                                *)
(***************************************************************************)
IsMultiplierSign(t) == t.kind \in {"*", "^"}

\* The index of the first "*" or "^" of a line, or one past its end.
FirstSign(toks) ==
    IF \E i \in DOMAIN toks : IsMultiplierSign(toks[i])
    THEN CHOOSE i \in DOMAIN toks :
            /\ IsMultiplierSign(toks[i])
            /\ \A j \in 1..(i - 1) : ~IsMultiplierSign(toks[j])
    ELSE Len(toks) + 1

BeforeMultiplier(toks) == SubSeq(toks, 1, FirstSign(toks) - 1)

MultiplierTokens(toks) == SubSeq(toks, FirstSign(toks), Len(toks))

\* The multiplier tokens are components: a sign and an Integer, each time.
AreComponents(ms) ==
    /\ Len(ms) % 2 = 0
    /\ \A i \in DOMAIN ms :
          IF i % 2 = 1 THEN IsMultiplierSign(ms[i]) ELSE ms[i].kind = "INT"

Times(ms, sign) == Cardinality({i \in DOMAIN ms : ms[i].kind = sign})

\* The number written after the sign, or 1 when the sign is not there.
Written(ms, sign) ==
    IF Times(ms, sign) = 0 THEN 1
    ELSE ParseInt(ms[(CHOOSE i \in DOMAIN ms : ms[i].kind = sign) + 1].text)

HasEmptyMarker(toks) == \E i \in DOMAIN toks : toks[i].kind = "/EMPTY_RANKING/"

\* The names written before "||", split at the commas.
RECURSIVE SplitAtCommas(_)
SplitAtCommas(ts) ==
    IF \E i \in DOMAIN ts : ts[i].kind = ","
    THEN LET c == CHOOSE i \in DOMAIN ts :
                    ts[i].kind = "," /\ \A j \in 1..(i - 1) : ts[j].kind # ","
         IN  <<NameOf(ts, 1, c)>> \o SplitAtCommas(SubSeq(ts, c + 1, Len(ts)))
    ELSE <<NameOf(ts, 1, Len(ts) + 1)>>

WrittenTags(toks) ==
    IF \E i \in DOMAIN toks : toks[i].kind = "||"
    THEN SplitAtCommas(SubSeq(toks, 1, (CHOOSE i \in DOMAIN toks : toks[i].kind = "||") - 1))
    ELSE <<>>

\* C5: after a ranking the diagrams describe, multiplier components may come
\* in either order, each at most once: the line is then described by the
\* diagram and parsed, and its Ballot has the written quantifier as count
\* and the written weight as weight (1 for an absent one), whatever the
\* order, and is otherwise the Ballot of the line without multiplier.  A
\* line in which a component comes a second time is not described by the
\* diagram and is rejected with DuplicateMultiplierComponent.
C5_MultiplierEitherOrderOnce ==
    LET ms   == MultiplierTokens(tokens)
        base == BeforeMultiplier(tokens)
    IN  (/\ cef_pc \in {"validate", "build", "done"}
         /\ ms # <<>>
         /\ AreComponents(ms)
         /\ Describes(svg, "line", base))
        =>
        IF Times(ms, "*") <= 1 /\ Times(ms, "^") <= 1
        THEN /\ accepted = "yes"
             /\ parsed.ok
             /\ parsed.line.quantifier.present = (Times(ms, "*") = 1)
             /\ parsed.line.weight.present = (Times(ms, "^") = 1)
             /\ ballot.built =>
                    LET plain == build_ballot(parse_line(base).line)
                    IN  /\ ballot.count = Written(ms, "*")
                        /\ ballot.weight = Written(ms, "^")
                        /\ ballot.tag_list = plain.tag_list
                        /\ ballot.ranked_groups = plain.ranked_groups
                        /\ plain.count = 1
                        /\ plain.weight = 1
        ELSE /\ accepted = "no"
             /\ ~parsed.ok
             /\ parsed.err = "DuplicateMultiplierComponent"
             /\ ~ballot.built

\* A Ballot built from a line that writes the weight before the quantifier.
C5_Witness ==
    /\ ballot.built
    /\ ballot.count = 2
    /\ ballot.weight = 1
    /\ \E i, j \in DOMAIN tokens :
          i < j /\ tokens[i].kind = "^" /\ tokens[j].kind = "*"

\* C7: a line with the empty-ranking marker that the diagram describes
\* parses to an empty ranking; its Ballot has no ranked groups, the tags
\* written before "||" in their order, and the written quantifier and
\* weight as count and weight; only a zero quantifier or weight keeps the
\* Ballot from being built.
C7_EmptyRankingBallot ==
    (HasEmptyMarker(tokens) /\ cef_pc \in {"validate", "build", "done"})
    =>
    /\ accepted = "yes" =>
          /\ parsed.ok
          /\ parsed.line.empty
          /\ parsed.line.groups = <<>>
          /\ cef_pc = "done" =>
                \/ ballot.built
                \/ checked \in {"ZeroQuantifier", "ZeroWeight"}
    /\ ballot.built =>
          /\ accepted = "yes"
          /\ ballot.ranked_groups = <<>>
          /\ ballot.tag_list = WrittenTags(tokens)
          /\ ballot.count = Written(MultiplierTokens(tokens), "*")
          /\ ballot.weight = Written(MultiplierTokens(tokens), "^")

\* A Ballot built from an empty ranking with two tags and both components.
C7_Witness ==
    /\ HasEmptyMarker(tokens)
    /\ ballot.built
    /\ ballot.ranked_groups = <<>>
    /\ Len(ballot.tag_list) = 2
    /\ ballot.count = 2
    /\ ballot.weight = 2

=============================================================================
